---- MODULE Spec2Model ----
(***************************************************************************)
(* Model of extensions/ql-vscode/src/databases.ts: the database layout     *)
(* resolver (findDataset, findSourceArchive, resolveDatabaseContents), the *)
(* DatabaseItemImpl wrapper and the DatabaseManager registry with its      *)
(* workspaceState persistence and its two event emitters.                  *)
(*                                                                         *)
(* Conventions.  An optional value (T | undefined) is a sequence of length *)
(* 0 or 1.  A filesystem path is a sequence of segments.  An item object   *)
(* is identified by its index in objs (its JavaScript reference); item 0   *)
(* stands for `undefined`.                                                 *)
(***************************************************************************)
EXTENDS Integers, Sequences, FiniteSets, Bags, TLC

\* ------------------------------------------------------------------ bounds
\* Largest number of db-* directories in one place (root or root/working).
MaxDirs == 2
\* Largest number of *.dbscheme files in one directory.
MaxSchemes == 2
\* Largest number of DatabaseItemImpl objects created in one session.
MaxObjs == 2
\* Largest number of asynchronous API calls in flight at once.
MaxCalls == 1
\* Largest number of characters of a file path given to resolveSourceFile.
MaxFileLen == 3
\* Largest number of refresh() calls suspended on one item at once.
MaxRefresh == 2

\* ------------------------------------------------------------------ values
None == <<>>
Some(x) == <<x>>

\* Names of the db-* directories and of the *.dbscheme files, in the order
\* glob enumerates them.
DbNames == <<"db-1", "db-2", "db-3", "db-4">>
SchemeNames == <<"s1.dbscheme", "s2.dbscheme", "s3.dbscheme", "s4.dbscheme">>

zipArchiveScheme == "codeql-zip-archive"

\* vscode.Uri.file(path)
UriFile(p) == [scheme |-> "file", path |-> p, fragment |-> ""]
\* uri.toString(true): the persisted string form of a location
UriToString(u) == <<u.scheme, u.path, u.fragment>>
\* vscode.Uri.parse(string)
UriParse(s) == [scheme |-> s[1], path |-> s[2], fragment |-> s[3]]
\* uri.fsPath
FsPath(u) == u.path
\* path.basename(p)
Basename(p) == IF Len(p) = 0 THEN "" ELSE p[Len(p)]
\* path.extname(p), on the names of the model
ExtName(p) == IF Basename(p) = "b.testproj" THEN ".testproj" ELSE ""

\* ------------------------------------------------------------ file system
\* What one candidate database root holds on disk.
\*   top[i], working[i]: the number of *.dbscheme files in the i-th db-*
\*   directory directly under the root, resp. under root/working;
\*   rootSchemes: the number of *.dbscheme files directly in the root;
\*   src: which of the four source archive candidates exist.
SrcCandidates == {"src", "src.zip", "output/src_archive", "output/src_archive.zip"}

DirSeqs == UNION {[1..n -> 0..MaxSchemes] : n \in 0..MaxDirs}

Missing ==
  [exists |-> FALSE, top |-> <<>>, working |-> <<>>, rootSchemes |-> 0, src |-> {}]

Layouts ==
  {Missing} \cup
  [exists : {TRUE}, top : DirSeqs, working : DirSeqs,
   rootSchemes : 0..MaxSchemes, src : SUBSET SrcCandidates]

\* glob('*.dbscheme', {cwd: dir}) for a directory holding n scheme files
SchemeFiles(n) == SubSeq(SchemeNames, 1, n)

\* The number of scheme files glob finds in directory `dir` of root `root`
\* whose layout is `lay` (no other directory of the model holds any).
SchemeCount(lay, root, dir) ==
  IF ~lay.exists THEN 0
  ELSE IF dir = root THEN lay.rootSchemes
  ELSE IF \E i \in 1..Len(lay.top) : dir = root \o <<DbNames[i]>>
    THEN lay.top[CHOOSE i \in 1..Len(lay.top) : dir = root \o <<DbNames[i]>>]
  ELSE IF \E i \in 1..Len(lay.working) : dir = root \o <<"working", DbNames[i]>>
    THEN lay.working[CHOOSE i \in 1..Len(lay.working) :
                       dir = root \o <<"working", DbNames[i]>>]
  ELSE 0

\* getDbSchemeFiles(dbDirectory)
getDbSchemeFiles(lay, root, dir) == SchemeFiles(SchemeCount(lay, root, dir))

\* A thrown error: its class and what it reports.
Err(cls, reason, path) == [cls |-> cls, reason |-> reason, path |-> path]
Ok(v) == [ok |-> TRUE, value |-> v, error |-> None]
Throw(e) == [ok |-> FALSE, value |-> None, error |-> Some(e)]

\* findDataset as it would be if root/working were searched before the root.
findDatasetWorkingFirst(lay, root) ==
  LET working == [i \in 1..Len(lay.working) |-> <<"working", DbNames[i]>>]
      dbRelativePaths ==
        IF Len(working) = 0
          THEN [i \in 1..Len(lay.top) |-> <<DbNames[i]>>]
          ELSE working
  IN IF Len(dbRelativePaths) = 0
       THEN Throw(Err("InvalidDatabaseError", "no dataset directory", root))
       ELSE Ok(UriFile(root \o dbRelativePaths[1]))

\* findDataset(parentDirectory): the relative paths glob returns, top level
\* first, working/ only when the top level has none; throws when both are
\* empty, else the first match.
findDataset(lay, root) ==
  LET top == [i \in 1..Len(lay.top) |-> <<DbNames[i]>>]
      dbRelativePaths ==
        IF Len(top) = 0
          THEN [i \in 1..Len(lay.working) |-> <<"working", DbNames[i]>>]
          ELSE top
  IN IF Len(dbRelativePaths) = 0
       THEN Throw(Err("InvalidDatabaseError", "no dataset directory", root))
       ELSE Ok(UriFile(root \o dbRelativePaths[1]))

\* findSourceArchive(databasePath): src, src.zip, output/src_archive,
\* output/src_archive.zip, in this order; undefined when none exists.
findSourceArchive(lay, root) ==
  IF "src" \in lay.src THEN Some(UriFile(root \o <<"src">>))
  ELSE IF "src.zip" \in lay.src
    THEN Some([UriFile(root \o <<"src.zip">>) EXCEPT !.scheme = zipArchiveScheme])
  ELSE IF "output/src_archive" \in lay.src
    THEN Some(UriFile(root \o <<"output", "src_archive">>))
  ELSE IF "output/src_archive.zip" \in lay.src
    THEN Some([UriFile(root \o <<"output", "src_archive.zip">>)
                 EXCEPT !.scheme = zipArchiveScheme])
  ELSE None

Contents(kind, name, datasetUri, sourceArchiveUri, dbSchemeUri) ==
  [kind |-> kind, name |-> name, datasetUri |-> datasetUri,
   sourceArchiveUri |-> sourceArchiveUri, dbSchemeUri |-> dbSchemeUri]

\* resolveDatabase(databasePath): findDataset's error is not caught here.
resolveDatabase(lay, root) ==
  LET ds == findDataset(lay, root)
  IN IF ~ds.ok THEN ds
     ELSE Ok(Some(Contents("Database", Basename(root), ds.value,
                           findSourceArchive(lay, root), None)))

\* resolveRawDataset(datasetPath): undefined when the directory holds no
\* scheme file.
resolveRawDataset(lay, root) ==
  IF Len(getDbSchemeFiles(lay, root, root)) > 0
    THEN Ok(Some(Contents("RawDataset", Basename(root), UriFile(root), None, None)))
    ELSE Ok(None)

\* resolveDatabaseContents as it would be if the first scheme file were
\* taken when the dataset directory holds several.
resolveDatabaseContentsTakesFirst(lay, uri) ==
  IF uri.scheme # "file"
    THEN Throw(Err("Error", "scheme not supported", FsPath(uri)))
  ELSE LET databasePath == FsPath(uri) IN
  IF ~lay.exists
    THEN Throw(Err("InvalidDatabaseError", "does not exist", databasePath))
  ELSE LET first == resolveDatabase(lay, databasePath) IN
  IF ~first.ok THEN first
  ELSE LET contents == first.value[1]
           dbPath == FsPath(contents.datasetUri)
           dbSchemeFiles == getDbSchemeFiles(lay, databasePath, dbPath) IN
  IF Len(dbSchemeFiles) = 0
    THEN Throw(Err("InvalidDatabaseError", "no dbscheme", dbPath))
  ELSE Ok([contents EXCEPT
             !.dbSchemeUri = Some(UriFile(dbPath \o <<dbSchemeFiles[1]>>))])

\* resolveDatabaseContents(uri) on a root whose layout is lay.
resolveDatabaseContents(lay, uri) ==
  IF uri.scheme # "file"
    THEN Throw(Err("Error", "scheme not supported", FsPath(uri)))
  ELSE LET databasePath == FsPath(uri) IN
  IF ~lay.exists
    THEN Throw(Err("InvalidDatabaseError", "does not exist", databasePath))
  ELSE LET first == resolveDatabase(lay, databasePath) IN
  IF ~first.ok THEN first
  ELSE LET found == IF first.value # None THEN first
                    ELSE resolveRawDataset(lay, databasePath) IN
  IF found.value = None
    THEN Throw(Err("InvalidDatabaseError", "not a valid database", databasePath))
  ELSE LET contents == found.value[1]
           dbPath == FsPath(contents.datasetUri)
           dbSchemeFiles == getDbSchemeFiles(lay, databasePath, dbPath) IN
  IF Len(dbSchemeFiles) = 0
    THEN Throw(Err("InvalidDatabaseError", "no dbscheme", dbPath))
  ELSE IF Len(dbSchemeFiles) > 1
    THEN Throw(Err("InvalidDatabaseError", "multiple dbschemes", dbPath))
  ELSE Ok([contents EXCEPT
             !.dbSchemeUri = Some(UriFile(dbPath \o <<dbSchemeFiles[1]>>))])

\* ------------------------------------------------------------------- state
\* The database roots of the model, and the layouts a root is found in when
\* the registry resolves it: a well-formed database bundle, or no directory
\* at all.  The disk is not the program's: every resolution reads whatever
\* layout is there at that moment.
Roots == {<<"a">>, <<"b.testproj">>}
Bundle ==
  [exists |-> TRUE, top |-> <<1>>, working |-> <<>>, rootSchemes |-> 0,
   src |-> {"src.zip"}]
RegistryLayouts == {Bundle, Missing}

\* The `options` arguments openDatabase is called with for each root.
OpenOptions(root) ==
  IF root = <<"a">>
    THEN {Some([displayName |-> Some("shown"), ignoreSourceArchive |-> None])}
    ELSE {None}

\* The locations resolveDatabaseContents is probed with on its own.
ProbeUris == {UriFile(<<"a">>), [scheme |-> "http", path |-> <<"a">>, fragment |-> ""]}
NoProbe == [uri |-> UriFile(<<"a">>), lay |-> Missing]

VARIABLES
  objs,      \* the DatabaseItemImpl objects of this session, by reference
  items,     \* DatabaseManager._databaseItems: references, in order
  current,   \* DatabaseManager._currentDatabaseItem: a reference, 0 = undefined
  pList,     \* workspaceState[DB_LIST]
  pCurrent,  \* workspaceState[CURRENT_DB]
  load,      \* loadPersistedState: its locals and where it is suspended
  calls,     \* the asynchronous API calls suspended in a resolution (a bag)
  fired,     \* the events the last step fired, in order, each with what a
             \* listener sees at that moment
  last,      \* the API call or handler the last step completed
  quiet,     \* no API call was made in this session
  prev,      \* how the previous session ended
  probe,     \* a location and the layout of its root, for the resolver alone
  resolved   \* what resolveDatabaseContents settled with for probe

vars == <<objs, items, current, pList, pCurrent, load, calls, fired, last,
          quiet, prev, probe, resolved>>

\* The registry's own state, threaded through the synchronous helpers.
Reg == [objs |-> objs, items |-> items, current |-> current, pList |-> pList,
        pCurrent |-> pCurrent, fired |-> <<>>]

\* What a call leaves: the registry, and the error it throws (if any).
Out(R, thrown) == [reg |-> R, thrown |-> thrown]

\* ---------------------------------------------------------------- helpers
\* DatabaseItemImpl.getPersistedState
getPersistedState(obj) ==
  [uri |-> UriToString(obj.databaseUri), options |-> obj.options]

\* EventEmitter.fire(item): listeners run synchronously and see the state
\* as it is at the call.
fire(R, emitter, item) ==
  [R EXCEPT !.fired = Append(@,
     [emitter |-> emitter, item |-> item,
      view |-> [objs |-> R.objs, items |-> R.items, current |-> R.current,
                pList |-> R.pList, pCurrent |-> R.pCurrent]])]

\* DatabaseManager.updatePersistedDatabaseList
updatePersistedDatabaseList(R) ==
  [R EXCEPT !.pList = [k \in 1..Len(R.items) |-> getPersistedState(R.objs[R.items[k]])]]

\* DatabaseManager.updatePersistedCurrentDatabaseItem
updatePersistedCurrentDatabaseItem(R) ==
  [R EXCEPT !.pCurrent =
     IF R.current # 0 THEN Some(UriToString(R.objs[R.current].databaseUri))
     ELSE None]

\* new DatabaseItemImpl(databaseUri, contents, options, onChanged)
newItem(R, databaseUri, contents, options) ==
  [R EXCEPT !.objs = Append(@,
     [databaseUri |-> databaseUri, contents |-> contents, error |-> None,
      options |-> options])]

\* addDatabaseItem as it would be if the event were fired before the list
\* is persisted.
addDatabaseItemFiresFirst(R, item) ==
  updatePersistedDatabaseList(fire([R EXCEPT !.items = Append(@, item)], "item", 0))

\* DatabaseManager.addDatabaseItem
addDatabaseItem(R, item) ==
  fire(updatePersistedDatabaseList([R EXCEPT !.items = Append(@, item)]),
       "item", 0)

\* Array.splice(index, 1): the sequence without its index-th entry
Splice(s, index) ==
  [k \in 1..(Len(s) - 1) |-> IF k < index THEN s[k] ELSE s[k + 1]]

\* findIndex(searchItem => searchItem === item), 0 when there is none
FindIndex(s, item) ==
  IF \E k \in 1..Len(s) : s[k] = item
    THEN CHOOSE k \in 1..Len(s) : s[k] = item /\ \A j \in 1..(k - 1) : s[j] # item
    ELSE 0

\* removeDatabaseItem as it would be if the first remaining item were made
\* current when the current one is removed.
removeDatabaseItemPromotes(R, item) ==
  LET index == FindIndex(R.items, item)
      R1 == IF index >= 1 THEN [R EXCEPT !.items = Splice(@, index)] ELSE R
      R2 == IF R.current = item
              THEN [R1 EXCEPT !.current = IF Len(R1.items) > 0 THEN R1.items[1] ELSE 0]
              ELSE R1
  IN fire(updatePersistedDatabaseList(R2), "item", 0)

\* DatabaseManager.removeDatabaseItem
removeDatabaseItem(R, item) ==
  LET R1 == IF R.current = item THEN [R EXCEPT !.current = 0] ELSE R
      index == FindIndex(R1.items, item)
      R2 == IF index >= 1 THEN [R1 EXCEPT !.items = Splice(@, index)] ELSE R1
  IN fire(updatePersistedDatabaseList(R2), "item", 0)

\* refresh as it would be if a success left the cached error in place.
refreshKeepsError(R, item, res) ==
  Out(fire([R EXCEPT !.objs[item].contents = IF res.ok THEN Some(res.value) ELSE None,
                     !.objs[item].error = IF res.ok THEN @ ELSE res.error],
           "item", item),
      IF res.ok THEN None ELSE res.error)

\* refresh as it would be if a failure left the cached contents in place.
refreshKeepsContents(R, item, res) ==
  Out(fire([R EXCEPT !.objs[item].contents = IF res.ok THEN Some(res.value) ELSE @,
                     !.objs[item].error = IF res.ok THEN None ELSE res.error],
           "item", item),
      IF res.ok THEN None ELSE res.error)

\* DatabaseItemImpl.refresh, from the point where resolveDatabaseContents
\* has settled with `res`: the contents/error pair is written, the error (if
\* any) is rethrown, and the finally block fires onChanged.
refresh(R, item, res) ==
  Out(fire([R EXCEPT !.objs[item].contents = IF res.ok THEN Some(res.value) ELSE None,
                     !.objs[item].error = IF res.ok THEN None ELSE res.error],
           "item", item),
      IF res.ok THEN None ELSE res.error)

\* setCurrentDatabaseItem as it would be if the item were made current
\* before the refresh is awaited.
setCurrentDatabaseItemAssignsFirst(R, item, skipRefresh, res) ==
  LET R1 == IF R.current # item
              THEN fire(updatePersistedCurrentDatabaseItem(
                          [R EXCEPT !.current = item]), "current", item)
              ELSE R
  IN IF ~skipRefresh /\ item # 0
       THEN LET rf == [reg |-> R1, thrown |-> IF res.ok THEN None ELSE res.error]
                w == [rf.reg EXCEPT
                        !.objs[item].contents = IF res.ok THEN Some(res.value) ELSE None,
                        !.objs[item].error = IF res.ok THEN None ELSE res.error]
            IN Out(fire(w, "item", item), rf.thrown)
       ELSE Out(R1, None)

\* setCurrentDatabaseItem as it would be without the comparison of line 493.
setCurrentDatabaseItemAlwaysFires(R, item, skipRefresh, res) ==
  LET rf == IF ~skipRefresh /\ item # 0
              THEN Out(fire([R EXCEPT
                        !.objs[item].contents = IF res.ok THEN Some(res.value) ELSE None,
                        !.objs[item].error = IF res.ok THEN None ELSE res.error],
                      "item", item),
                       IF res.ok THEN None ELSE res.error)
              ELSE Out(R, None)
  IN IF rf.thrown # None THEN rf
     ELSE Out(fire(updatePersistedCurrentDatabaseItem(
                     [rf.reg EXCEPT !.current = item]), "current", item), None)

\* DatabaseManager.setCurrentDatabaseItem(item, skipRefresh); `res` is what
\* the resolution of item.refresh() settles with when there is a refresh.
setCurrentDatabaseItem(R, item, skipRefresh, res) ==
  LET rf == IF ~skipRefresh /\ item # 0 THEN refresh(R, item, res) ELSE Out(R, None)
  IN IF rf.thrown # None THEN rf
     ELSE IF rf.reg.current # item
       THEN Out(fire(updatePersistedCurrentDatabaseItem(
                       [rf.reg EXCEPT !.current = item]), "current", item), None)
       ELSE rf

\* openDatabase, lines 413-420: the full options of a new item
fullOptionsOf(uri, options) ==
  LET isQLTestDatabase == ExtName(FsPath(uri)) = ".testproj"
      given == IF options = None THEN None ELSE options[1].ignoreSourceArchive
  IN [ignoreSourceArchive |-> IF given # None THEN given[1] ELSE isQLTestDatabase,
      displayName |-> IF options = None THEN None ELSE options[1].displayName]

\* openDatabase as it would be if an item were registered for a location
\* whose resolution fails, carrying the error.
openDatabaseKeepsFailed(R, uri, options, res) ==
  LET R1 == newItem(R, uri, IF res.ok THEN Some(res.value) ELSE None,
                    fullOptionsOf(uri, options))
      R2 == [R1 EXCEPT !.objs[Len(R1.objs)].error = res.error]
  IN Out(addDatabaseItem(R2, Len(R2.objs)), res.error)

\* DatabaseManager.openDatabase(uri, options); `res` is what the awaited
\* resolveDatabaseContents(uri) settles with.
openDatabase(R, uri, options, res) ==
  IF ~res.ok THEN Out(R, res.error)
  ELSE LET R1 == newItem(R, uri, Some(res.value), fullOptionsOf(uri, options))
       IN Out(addDatabaseItem(R1, Len(R1.objs)), None)

\* createDatabaseItemFromPersistedState: the item is built with undefined
\* contents and added; nothing is resolved.
createDatabaseItemFromPersistedState(R, state) ==
  LET R1 == newItem(R, UriParse(state.uri), None,
                    [ignoreSourceArchive |-> state.options.ignoreSourceArchive,
                     displayName |-> state.options.displayName])
  IN addDatabaseItem(R1, Len(R1.objs))

\* loadPersistedState as it would be if the item were made current whether
\* or not its refresh succeeded.
loadEntryIgnoresFailure(R, item, res, database, currentDatabaseUri) ==
  LET R1 == [R EXCEPT !.objs[item].contents = IF res.ok THEN Some(res.value) ELSE None,
                      !.objs[item].error = IF res.ok THEN None ELSE res.error]
      R2 == fire(R1, "item", item)
  IN IF currentDatabaseUri = Some(database.uri) /\ R2.current # item
       THEN fire(updatePersistedCurrentDatabaseItem([R2 EXCEPT !.current = item]),
                 "current", item)
       ELSE R2

\* loadPersistedState, lines 462-471, for the entry `database` whose item's
\* refresh settles with `res`.
loadEntry(R, item, res, database, currentDatabaseUri) ==
  LET rf == refresh(R, item, res)
  IN IF rf.thrown = None /\ currentDatabaseUri = Some(database.uri)
       THEN setCurrentDatabaseItem(rf.reg, item, TRUE, res).reg
       ELSE rf.reg

\* loadPersistedState has returned (its locals are gone).
LoadDone ==
  [pc |-> "done", databases |-> <<>>, currentDatabaseUri |-> None, i |-> 0,
   item |-> 0]

\* loadPersistedState has ended in its outer catch, which reports the error.
LoadFailed ==
  [pc |-> "failed", databases |-> <<>>, currentDatabaseUri |-> None, i |-> 0,
   item |-> 0]

\* A persisted entry that is not an object (null): it has no uri.
NullEntry ==
  [uri |-> None, options |-> [ignoreSourceArchive |-> FALSE, displayName |-> None]]

\* loadPersistedState, lines 460-461 and 473-476: the loop takes the entry
\* ld.i and makes it an item before the load is suspended in its refresh;
\* reading `state.options` of an entry that is not an object throws, which
\* ends the loop in the outer catch with the items made so far.
loadCreate(R, ld) ==
  IF ld.pc # "refreshing" THEN [reg |-> R, load |-> ld]
  ELSE IF ld.databases[ld.i] = NullEntry THEN [reg |-> R, load |-> LoadFailed]
  ELSE [reg |-> createDatabaseItemFromPersistedState(R, ld.databases[ld.i]),
        load |-> ld]

\* loadPersistedState as it would be without the inner try/catch: the first
\* failed refresh ends the loop.
loadAdvanceStopsOnFailure(ld, n, failed) ==
  IF ld.i < Len(ld.databases) /\ ~failed
    THEN [ld EXCEPT !.pc = "refreshing", !.i = @ + 1, !.item = n]
    ELSE LoadDone

\* loadPersistedState, line 460: the loop goes on to the next entry (whose
\* item is the n-th object) whether or not the refresh of this one failed.
loadAdvance(ld, n, failed) ==
  IF ld.i < Len(ld.databases)
    THEN [ld EXCEPT !.pc = "refreshing", !.i = @ + 1, !.item = n]
    ELSE LoadDone

\* What the last step completed: the call, its item, how it ended ("ok",
\* "throw" to its caller, "caught" by loadPersistedState, "pending" when it
\* is suspended), the error, the item whose refresh() completed in it and
\* the layout its resolution read.
Last(op, item, outcome, error, refreshed, lay) ==
  [op |-> op, item |-> item, outcome |-> outcome, error |-> error,
   refreshed |-> refreshed, lay |-> lay]

Commit(R) ==
  /\ objs' = R.objs
  /\ items' = R.items
  /\ current' = R.current
  /\ pList' = R.pList
  /\ pCurrent' = R.pCurrent
  /\ fired' = R.fired

\* ------------------------------------------------------------ construction
EmptyReg(pl, pc) ==
  [objs |-> <<>>, items |-> <<>>, current |-> 0, pList |-> pl, pCurrent |-> pc,
   fired |-> <<>>]

\* new DatabaseManager(ctx, ...): loadPersistedState runs until it is
\* suspended in the refresh of the first persisted entry, which has been made
\* an item by then (the await of createDatabaseItemFromPersistedState's
\* already settled promise resumes before any other call does).
Constructed(pl, pc) ==
  loadCreate(EmptyReg(pl, pc),
             IF Len(pl) = 0 THEN LoadDone
             ELSE [pc |-> "refreshing", databases |-> pl,
                   currentDatabaseUri |-> pc, i |-> 1, item |-> 1])

Construct(pl, pc) ==
  /\ Commit(Constructed(pl, pc).reg)
  /\ load' = Constructed(pl, pc).load
  /\ calls' = EmptyBag
  /\ quiet' = TRUE

\* How the previous session ended, kept while this session has made no API
\* call: settled when its load had completed, no call was suspended, every
\* item of its list was valid and its current item (if any) was in the list,
\* and then the location of its current item.
NoPrev == [settled |-> FALSE, current |-> None]

CurrentLocation ==
  IF current = 0 THEN None ELSE Some(UriToString(objs[current].databaseUri))

InList(item) == \E k \in 1..Len(items) : items[k] = item

\* A registry on a workspace that has never stored anything.
Init ==
  /\ objs = <<>> /\ items = <<>> /\ current = 0
  /\ pList = <<>> /\ pCurrent = None
  /\ load = LoadDone
  /\ calls = EmptyBag
  /\ fired = <<>>
  /\ last = Last("construct", 0, "ok", None, 0, None)
  /\ quiet = TRUE
  /\ prev = NoPrev
  /\ probe = NoProbe /\ resolved = None

\* The editor window is closed and opened again: every object and every
\* suspended call of the session is gone, workspaceState is what is left.
Restart ==
  /\ Construct(pList, pCurrent)
  /\ last' = Last("construct", 0, "ok", None, 0, None)
  /\ prev' = IF /\ load.pc = "done"
                  /\ calls = EmptyBag
                  /\ (current = 0 \/ InList(current))
                  /\ \A k \in 1..Len(items) : objs[items[k]].contents # None
               THEN [settled |-> TRUE, current |-> CurrentLocation]
               ELSE NoPrev
  /\ UNCHANGED <<probe, resolved>>

\* --------------------------------------------------------------- API calls
\* Objects the suspended calls and the load may still create.
LoadLeft == IF load.pc = "done" THEN 0 ELSE Len(load.databases) - load.i
Reserved == BagCardinality(calls) + LoadLeft

Call(op, uri, options, item) ==
  [op |-> op, uri |-> uri, options |-> options, item |-> item]

Suspend(c) ==
  /\ BagCardinality(calls) < MaxCalls
  /\ calls' = calls (+) SetToBag({c})
  /\ fired' = <<>>
  /\ last' = Last(c.op, c.item, "pending", None, 0, None)
  /\ quiet' = FALSE /\ prev' = NoPrev
  /\ UNCHANGED <<objs, items, current, pList, pCurrent, load, probe, resolved>>

\* A suspended call resumes with the registry R it leaves.
Resume(c, out, refreshed, lay) ==
  /\ Commit(out.reg)
  /\ last' = Last(c.op, IF c.op = "open" /\ out.thrown = None
                            THEN Len(out.reg.objs) ELSE c.item,
                  IF out.thrown = None THEN "ok" ELSE "throw", out.thrown,
                  refreshed, Some(lay))
  /\ calls' = calls (-) SetToBag({c})
  /\ UNCHANGED <<load, quiet, prev, probe, resolved>>

\* openDatabase(uri, options) up to `await resolveDatabaseContents(uri)`
OpenBegin(uri, options) ==
  /\ Len(objs) + Reserved < MaxObjs
  /\ Suspend(Call("open", Some(uri), options, 0))

\* openDatabase from the await on, the resolution having read layout lay
OpenDone(c, lay) ==
  /\ BagIn(c, calls) /\ c.op = "open"
  /\ Resume(c, openDatabase(Reg, c.uri[1], c.options,
                            resolveDatabaseContents(lay, c.uri[1])), 0, lay)

\* setCurrentDatabaseItem(item, skipRefresh) that does not refresh: it runs
\* to its end without suspending.
SetCurrentSync(item, skipRefresh) ==
  /\ skipRefresh \/ item = 0
  /\ Commit(setCurrentDatabaseItem(Reg, item, skipRefresh, Throw(None)).reg)
  /\ last' = Last("setCurrent", item, "ok", None, 0, None)
  /\ quiet' = FALSE /\ prev' = NoPrev
  /\ UNCHANGED <<load, calls, probe, resolved>>

\* setCurrentDatabaseItem(item) up to `await item.refresh()`
SetCurrentBegin(item) ==
  /\ item # 0
  /\ Suspend(Call("setCurrent", None, None, item))

\* setCurrentDatabaseItem from the await on
SetCurrentDone(c, lay) ==
  /\ BagIn(c, calls) /\ c.op = "setCurrent"
  /\ Resume(c, setCurrentDatabaseItem(Reg, c.item, FALSE,
                 resolveDatabaseContents(lay, objs[c.item].databaseUri)),
            c.item, lay)

\* removeDatabaseItem(item)
Remove(item) ==
  /\ Commit(removeDatabaseItem(Reg, item))
  /\ last' = Last("remove", item, "ok", None, 0, None)
  /\ quiet' = FALSE /\ prev' = NoPrev
  /\ UNCHANGED <<load, calls, probe, resolved>>

\* ----------------------------------------------------- loadPersistedState
\* The refresh of the entry being loaded settles; the loop goes on to the
\* next entry, which is made an item before the next suspension.
LoadRefreshDone(lay) ==
  /\ load.pc = "refreshing"
  /\ LET res == resolveDatabaseContents(lay, objs[load.item].databaseUri)
         R1 == loadEntry(Reg, load.item, res, load.databases[load.i],
                         load.currentDatabaseUri)
         next == loadCreate(R1, loadAdvance(load, Len(objs) + 1, ~res.ok))
     IN /\ Commit(next.reg)
        /\ load' = next.load
        /\ last' = Last("load", load.item, IF res.ok THEN "ok" ELSE "caught",
                        res.error, load.item, Some(lay))
  /\ UNCHANGED <<calls, quiet, prev, probe, resolved>>

\* ------------------------------------------------------------------- spec
Next ==
  \/ \E root \in Roots : \E options \in OpenOptions(root) :
       OpenBegin(UriFile(root), options)
  \/ \E c \in BagToSet(calls), lay \in RegistryLayouts : OpenDone(c, lay)
  \/ \E item \in 0..Len(objs), skipRefresh \in BOOLEAN : SetCurrentSync(item, skipRefresh)
  \/ \E item \in 1..Len(objs) : SetCurrentBegin(item)
  \/ \E c \in BagToSet(calls), lay \in RegistryLayouts : SetCurrentDone(c, lay)
  \/ \E item \in 1..Len(objs) : Remove(item)
  \/ \E lay \in RegistryLayouts : LoadRefreshDone(lay)
  \/ Restart

Spec == Init /\ [][Next]_vars

\* ------------------------------------------------- the resolver on its own
\* resolveDatabaseContents applied to one location whose root has any of the
\* layouts.
ResolveInit ==
  /\ objs = <<>> /\ items = <<>> /\ current = 0
  /\ pList = <<>> /\ pCurrent = None
  /\ load = LoadDone
  /\ calls = EmptyBag
  /\ fired = <<>>
  /\ last = Last("construct", 0, "ok", None, 0, None)
  /\ quiet = TRUE
  /\ prev = NoPrev
  /\ probe \in [uri : ProbeUris, lay : Layouts]
  /\ resolved = None

ResolveCall ==
  /\ resolved = None
  /\ resolved' = Some(resolveDatabaseContents(probe.lay, probe.uri))
  /\ UNCHANGED <<objs, items, current, pList, pCurrent, load, calls, fired,
                 last, quiet, prev, probe>>

\* openDatabase(probe.uri) on a registry that holds nothing, the root
\* having the layout of the probe.
ResolveOpen ==
  /\ last.op = "construct"
  /\ LET out == openDatabase(Reg, probe.uri, None,
                             resolveDatabaseContents(probe.lay, probe.uri))
     IN /\ Commit(out.reg)
        /\ last' = Last("open", Len(out.reg.objs),
                        IF out.thrown = None THEN "ok" ELSE "throw", out.thrown,
                        0, Some(probe.lay))
  /\ UNCHANGED <<load, calls, quiet, prev, probe, resolved>>

ResolveNext == ResolveCall \/ ResolveOpen

SpecResolve == ResolveInit /\ [][ResolveNext]_vars

\* ------------------------------------------ the load of any stored state
\* What workspaceState may hold when the registry is constructed: a list of
\* entries, each the persisted form of a root or not an object, and any
\* current-location.
StoredEntries ==
  {[uri |-> UriToString(UriFile(root)),
    options |-> fullOptionsOf(UriFile(root), None)] : root \in Roots}
  \cup {NullEntry}
StoredLists == UNION {[1..n -> StoredEntries] : n \in 0..MaxObjs}
StoredCurrents == {None} \cup {Some(UriToString(UriFile(root))) : root \in Roots}

\* The location whose resolution never settles; NoHang when every
\* resolution settles.
NoHang == UriFile(<<>>)
StoredHangs == {UriFile(root) : root \in Roots} \cup {NoHang}

\* A registry just constructed on any stored state.
StoredInit ==
  \E pl \in StoredLists, pc \in StoredCurrents, hang \in StoredHangs :
    LET c == Constructed(pl, pc)
    IN /\ objs = c.reg.objs /\ items = c.reg.items /\ current = c.reg.current
       /\ pList = c.reg.pList /\ pCurrent = c.reg.pCurrent
       /\ load = c.load
       /\ calls = EmptyBag
       /\ fired = c.reg.fired
       /\ last = Last("construct", 0, "ok", None, 0, None)
       /\ quiet = TRUE
       /\ prev = NoPrev
       /\ probe = [uri |-> hang, lay |-> Missing, stored |-> pl, storedCurrent |-> pc]
       /\ resolved = None

\* The refresh the load awaits settles, unless it is of the location whose
\* resolution never does.
StoredLoad(lay) ==
  /\ load.pc = "refreshing"
  /\ objs[load.item].databaseUri # probe.uri
  /\ LoadRefreshDone(lay)

StoredNext == \E lay \in RegistryLayouts : StoredLoad(lay)

\* Every resolution other than the one that hangs settles in the end.
SpecStored == StoredInit /\ [][StoredNext]_vars /\ WF_vars(StoredNext)

\* ------------------------------------------ refresh() calls on one item
\* The layouts the root of the item is found in: two that resolve, to
\* different contents, and two that fail, with different errors.
RefreshLayouts ==
  {Bundle, [Bundle EXCEPT !.src = {}], [Bundle EXCEPT !.top = <<2>>], Missing}

\* A registry that has opened one database, of either root.
RefreshInit ==
  \E root \in Roots :
  LET uri == UriFile(root)
      R == openDatabase(EmptyReg(<<>>, None), uri, None,
                        resolveDatabaseContents(Bundle, uri)).reg
  IN /\ objs = R.objs /\ items = R.items /\ current = R.current
     /\ pList = R.pList /\ pCurrent = R.pCurrent
     /\ load = LoadDone
     /\ calls = EmptyBag
     /\ fired = R.fired
     /\ last = Last("open", 1, "ok", None, 0, Some(Bundle))
     /\ quiet = FALSE
     /\ prev = NoPrev
     /\ probe = NoProbe
     /\ resolved = <<>>

\* The last one or two of a sequence.
LastTwo(s) == IF Len(s) > 2 THEN SubSeq(s, Len(s) - 1, Len(s)) ELSE s

\* item.refresh() up to `await resolveDatabaseContents(this.databaseUri)`.
\* `resolved` keeps what the last two refreshes of the item settled with
\* since it last had no refresh suspended.
RefreshBegin(item) ==
  /\ BagCardinality(calls) < MaxRefresh
  /\ calls' = calls (+) SetToBag({Call("refresh", None, None, item)})
  /\ resolved' = IF calls = EmptyBag THEN <<>> ELSE resolved
  /\ fired' = <<>>
  /\ last' = Last("refresh", item, "pending", None, 0, None)
  /\ UNCHANGED <<objs, items, current, pList, pCurrent, load, quiet, prev, probe>>

\* item.refresh() from the await on, the resolution having read layout lay
RefreshDone(c, lay) ==
  /\ BagIn(c, calls) /\ c.op = "refresh"
  /\ LET res == resolveDatabaseContents(lay, objs[c.item].databaseUri)
         out == refresh(Reg, c.item, res)
     IN /\ Commit(out.reg)
        /\ resolved' = LastTwo(Append(resolved, res))
        /\ last' = Last("refresh", c.item,
                        IF out.thrown = None THEN "ok" ELSE "throw", out.thrown,
                        c.item, Some(lay))
  /\ calls' = calls (-) SetToBag({c})
  /\ UNCHANGED <<load, quiet, prev, probe>>

RefreshNext ==
  \/ \E item \in 1..Len(objs) : RefreshBegin(item)
  \/ \E c \in BagToSet(calls), lay \in RefreshLayouts : RefreshDone(c, lay)

SpecRefresh == RefreshInit /\ [][RefreshNext]_vars

\* ---------------------------------------------- resolveSourceFile on its own
\* A string is a sequence of characters; a name of the model stands for the
\* characters of that name, none of which is a slash or a colon.
SourceChars == {"/", ":", "x"}
SourceFiles ==
  {None} \cup {Some(s) : s \in UNION {[1..n -> SourceChars] : n \in 0..MaxFileLen}}

\* The layouts of the root of the item: no source archive, a src directory,
\* a src.zip archive.
SourceLayouts == {[Bundle EXCEPT !.src = s] : s \in {{}, {"src"}, {"src.zip"}}}

\* uri.path as a string: every segment after a slash
PathString(p) ==
  IF Len(p) = 0 THEN <<>>
  ELSE [k \in 1..(2 * Len(p)) |-> IF k % 2 = 1 THEN "/" ELSE p[k \div 2]]

\* file.replace(/^\/*/, ''): the string without its leading slashes
StripLeadingSlashes(s) ==
  LET n == Cardinality({k \in 1..Len(s) : \A j \in 1..k : s[j] = "/"})
  IN SubSeq(s, n + 1, Len(s))

\* s.replace(from, to) with a string pattern: the first occurrence only
ReplaceFirst(s, from, to) ==
  IF \E k \in 1..Len(s) : s[k] = from
    THEN [s EXCEPT ![CHOOSE k \in 1..Len(s) :
                       s[k] = from /\ \A j \in 1..(k - 1) : s[j] # from] = to]
    ELSE s

\* s.endsWith(ch)
EndsWith(s, ch) == Len(s) > 0 /\ s[Len(s)] = ch

\* DatabaseItemImpl.sourceArchive
sourceArchive(obj) ==
  IF obj.options.ignoreSourceArchive \/ obj.contents = None THEN None
  ELSE obj.contents[1].sourceArchiveUri

\* DatabaseItemImpl.resolveSourceFile(file); the path and the fragment of
\* the result are strings.
resolveSourceFile(obj, file) ==
  LET archive == sourceArchive(obj)
      AsString(u) == [u EXCEPT !.path = PathString(@), !.fragment = <<>>]
  IN IF archive = None
       THEN IF file # None
              THEN [scheme |-> "file", path |-> file[1], fragment |-> <<>>]
              ELSE AsString(obj.databaseUri)
       ELSE IF file # None
         THEN LET relativeFilePath ==
                    ReplaceFirst(StripLeadingSlashes(file[1]), ":", "_")
              IN IF archive[1].scheme = zipArchiveScheme
                   THEN [AsString(archive[1]) EXCEPT !.fragment = relativeFilePath]
                   ELSE LET path0 == PathString(archive[1].path)
                            newPath == IF ~EndsWith(path0, "/")
                                         THEN path0 \o <<"/">> ELSE path0
                        IN [AsString(archive[1]) EXCEPT
                              !.path = newPath \o relativeFilePath]
         ELSE AsString(archive[1])

\* A registry that has opened one database, whose root has any of the
\* source layouts, with or without its source archive ignored.
SourceInit ==
  \E lay \in SourceLayouts, ignore \in BOOLEAN, file \in SourceFiles :
    LET uri == UriFile(<<"a">>)
        R == openDatabase(EmptyReg(<<>>, None), uri,
                          Some([displayName |-> None,
                                ignoreSourceArchive |-> Some(ignore)]),
                          resolveDatabaseContents(lay, uri)).reg
    IN /\ objs = R.objs /\ items = R.items /\ current = R.current
       /\ pList = R.pList /\ pCurrent = R.pCurrent
       /\ load = LoadDone
       /\ calls = EmptyBag
       /\ fired = R.fired
       /\ last = Last("open", 1, "ok", None, 0, Some(lay))
       /\ quiet = FALSE
       /\ prev = NoPrev
       /\ probe = [uri |-> uri, lay |-> lay, file |-> file]
       /\ resolved = None

SourceCall ==
  /\ resolved = None
  /\ resolved' = Some(resolveSourceFile(objs[1], probe.file))
  /\ UNCHANGED <<objs, items, current, pList, pCurrent, load, calls, fired,
                 last, quiet, prev, probe>>

SourceNext == SourceCall

SpecSource == SourceInit /\ [][SourceNext]_vars

\* ------------------------------------------ belongsToExplorerUri on its own
\* sourceArchive.fsPath.endsWith('.zip'), on the names of the model
EndsWithZip(p) == Basename(p) \in {"src.zip", "src_archive.zip"}

\* uri.fsPath of a location whose path is a string: the path itself,
\* whatever the scheme
FsPathString(u) == u.path

\* DatabaseItemImpl.getExplorerUri: `codeql-zip-archive:/` with the path of a
\* zip source archive as its fragment; its path and fragment are strings.
getExplorerUri(obj) ==
  LET archive == sourceArchive(obj)
  IN IF archive = None \/ ~EndsWithZip(FsPath(archive[1])) THEN None
     ELSE Some([scheme |-> zipArchiveScheme, path |-> <<"/">>,
                fragment |-> PathString(FsPath(archive[1]))])

\* DatabaseItemImpl.belongsToExplorerUri(uri): the fragment of uri is
\* compared with the fsPath of the explorer location, not with its fragment.
belongsToExplorerUri(obj, uri) ==
  LET sourceArchiveUri == getExplorerUri(obj)
  IN IF sourceArchiveUri = None THEN FALSE
     ELSE /\ uri.scheme = zipArchiveScheme
          /\ uri.fragment = FsPathString(sourceArchiveUri[1])

\* The layouts of the root of the item: those of resolveSourceFile and one
\* whose zip source archive is output/src_archive.zip.
ExplorerLayouts ==
  SourceLayouts \cup {[Bundle EXCEPT !.src = {"output/src_archive.zip"}]}

\* The candidate locations: of the archive scheme or of the file scheme,
\* whose fragment is the path of one of the source archives, a single slash
\* or empty.
ExplorerCandidates ==
  [scheme : {zipArchiveScheme, "file"}, path : {<<"/">>},
   fragment : {PathString(<<"a", "src.zip">>),
               PathString(<<"a", "output", "src_archive.zip">>),
               PathString(<<"a", "src">>), <<"/">>, <<>>}]

\* A registry that has opened one database, whose root has any of the
\* explorer layouts, with or without its source archive ignored.
ExplorerInit ==
  \E lay \in ExplorerLayouts, ignore \in BOOLEAN, candidate \in ExplorerCandidates :
    LET uri == UriFile(<<"a">>)
        R == openDatabase(EmptyReg(<<>>, None), uri,
                          Some([displayName |-> None,
                                ignoreSourceArchive |-> Some(ignore)]),
                          resolveDatabaseContents(lay, uri)).reg
    IN /\ objs = R.objs /\ items = R.items /\ current = R.current
       /\ pList = R.pList /\ pCurrent = R.pCurrent
       /\ load = LoadDone
       /\ calls = EmptyBag
       /\ fired = R.fired
       /\ last = Last("open", 1, "ok", None, 0, Some(lay))
       /\ quiet = FALSE
       /\ prev = NoPrev
       /\ probe = [uri |-> uri, lay |-> lay, candidate |-> candidate]
       /\ resolved = None

ExplorerCall ==
  /\ resolved = None
  /\ resolved' = Some([explorer |-> getExplorerUri(objs[1]),
                       belongs |-> belongsToExplorerUri(objs[1], probe.candidate)])
  /\ UNCHANGED <<objs, items, current, pList, pCurrent, load, calls, fired,
                 last, quiet, prev, probe>>

ExplorerNext == ExplorerCall

SpecExplorer == ExplorerInit /\ [][ExplorerNext]_vars

\* ----------------------------------------------------------------- claims
\* The events of emitter `emitter` among those a step fired.
EventsOf(f, emitter) == {k \in 1..Len(f) : f[k].emitter = emitter}
\* The item-changed events that name `item`.
ItemEvents(f, item) == {k \in EventsOf(f, "item") : f[k].item = item}
\* The locations of a persisted list.
UrisOf(pl) == {pl[k].uri : k \in 1..Len(pl)}
\* The persisted form of the items of a sequence of references.
PersistedOf(os, its) == [k \in 1..Len(its) |-> getPersistedState(os[its[k]])]

OpenThrew(l) == l.op = "open" /\ l.outcome = "throw"
SetCurrentThrew(l) == l.op = "setCurrent" /\ l.outcome = "throw"

\* C1 (as stated): when open(location) fails to resolve, the failure is
\* thrown and an item for the location is nevertheless appended to the
\* registry and to the persisted list, carrying the error and no contents.
C1_FailedOpenRegistersItem ==
  [][OpenThrew(last') =>
       /\ last'.error # None
       /\ Len(items') = Len(items) + 1
       /\ Len(pList') = Len(pList) + 1
       /\ objs'[items'[Len(items')]].error = last'.error
       /\ objs'[items'[Len(items')]].contents = None]_vars

\* C1 (amended): when open(location) fails to resolve, the failure is thrown
\* and nothing is registered: the objects, the registry sequence, the current
\* item and both persisted keys are unchanged and no event fires.
C1_FailedOpenRegistersNothing ==
  [][OpenThrew(last') =>
       /\ last'.error # None
       /\ UNCHANGED <<objs, items, current, pList, pCurrent>>
       /\ fired' = <<>>]_vars

\* An open has thrown while the registry holds an item opened before.
C1_Witness == OpenThrew(last) /\ Len(items) >= 1

\* C2: after setCurrent(item) and then remove(item), the persisted
\* current-location is absent.
C2_RemoveClearsPersistedCurrent ==
  [][(last'.op = "remove" /\ current = last'.item /\ InList(current)) =>
       pCurrent' = None]_vars

\* C4: a setCurrent(item) whose refresh fails throws that failure and leaves
\* the current item and the persisted current-location as they were, fires
\* no current-changed event, and leaves the item with the error and without
\* contents.
C4_FailedSetCurrentChangesNothing ==
  [][SetCurrentThrew(last') =>
       /\ last'.error # None
       /\ UNCHANGED <<current, pCurrent, items, pList>>
       /\ EventsOf(fired', "current") = {}
       /\ objs'[last'.item].contents = None
       /\ objs'[last'.item].error = last'.error]_vars

\* A setCurrent has thrown for an item of the list while another item is
\* current.
C4_Witness ==
  /\ SetCurrentThrew(last)
  /\ InList(last.item)
  /\ current # 0 /\ current # last.item

\* C3: a location that exists, with no db-* directory under it nor under
\* its working/, resolves to a RawDataset whose dataset is the location
\* itself and which has no source archive when it directly holds exactly
\* one scheme file, and fails with InvalidDatabaseError when it holds none
\* or several.
C3_RawDatasetFallback ==
  (/\ resolved # None
   /\ probe.uri.scheme = "file"
   /\ probe.lay.exists
   /\ probe.lay.top = <<>> /\ probe.lay.working = <<>>)
  => IF probe.lay.rootSchemes = 1
       THEN /\ resolved[1].ok
            /\ resolved[1].value.kind = "RawDataset"
            /\ resolved[1].value.datasetUri = probe.uri
            /\ resolved[1].value.sourceArchiveUri = None
       ELSE /\ ~resolved[1].ok
            /\ resolved[1].error[1].cls = "InvalidDatabaseError"

\* The step in which loadPersistedState returns.
LoadFinished == last'.op = "load" /\ load.pc = "refreshing" /\ load'.pc = "done"
\* Exactly one of contents and error is present.
OneOf(o) == (o.contents = None) # (o.error = None)

\* C5: the startup load only appends to the registry, and an entry whose
\* refresh fails keeps its item, without contents and with the error, and
\* is not made current; when the load returns in a session without API
\* calls, the registry holds one refreshed item per persisted entry, in the
\* persisted order, and no item with an error is current.
C5_LoadKeepsEveryEntry ==
  [][/\ last'.op = "load" =>
          /\ Len(items') >= Len(items)
          /\ SubSeq(items', 1, Len(items)) = items
          /\ last'.outcome = "caught" =>
               /\ current' = current
               /\ objs'[last'.item].contents = None
               /\ objs'[last'.item].error # None
               /\ (InList(last'.item) => \E k \in 1..Len(items') : items'[k] = last'.item)
     /\ (LoadFinished /\ quiet) =>
          /\ PersistedOf(objs', items') = load.databases
          /\ pList' = load.databases
          /\ \A k \in 1..Len(items') :
               /\ OneOf(objs'[items'[k]])
               /\ objs'[items'[k]].error # None => current' # items'[k]]_vars

\* The load has returned in a session without API calls, its first entry
\* failed to refresh and the entry after it was refreshed.
C5_Witness ==
  /\ last.op = "load" /\ load.pc = "done" /\ quiet
  /\ Len(items) = 2
  /\ objs[items[1]].error # None /\ objs[items[1]].contents = None
  /\ objs[items[2]].contents # None

\* C6: every completed refresh() leaves exactly one of contents and error:
\* the resolved record and no error on success, no contents and the failure
\* on failure, which is also what the caller gets; and it fires exactly one
\* item-changed event naming the item, whose listeners see the pair written.
C6_RefreshLeavesContentsOrError ==
  [][last'.refreshed # 0 =>
       LET it == last'.refreshed
           res == resolveDatabaseContents(last'.lay[1], objs[it].databaseUri)
       IN /\ OneOf(objs'[it])
          /\ res.ok => /\ objs'[it].contents = Some(res.value)
                       /\ objs'[it].error = None
                       /\ last'.outcome = "ok" /\ last'.error = None
          /\ ~res.ok => /\ objs'[it].contents = None
                        /\ objs'[it].error = res.error
                        /\ last'.outcome \in {"throw", "caught"}
                        /\ last'.error = res.error
          /\ Cardinality(ItemEvents(fired', it)) = 1
          /\ \A k \in ItemEvents(fired', it) :
               fired'[k].view.objs[it] = objs'[it]]_vars

\* A refresh has failed for an item and the failure was thrown to the
\* caller of setCurrent.
C6_Witness ==
  /\ last.refreshed # 0 /\ last.outcome = "throw"
  /\ objs[last.refreshed].error = last.error
  /\ ItemEvents(fired, last.refreshed) # {}

\* C7: setCurrent(item) with the item that is current already changes
\* neither the current item nor the persisted current-location and fires no
\* current-changed event; a current-changed event fires only in a step that
\* changes the current item, once, carrying the new current item.
C7_SetCurrentSameItemIsNoOp ==
  [][/\ (last'.op = "setCurrent" /\ last'.outcome # "pending" /\ last'.item = current) =>
          /\ UNCHANGED <<current, pCurrent>>
          /\ EventsOf(fired', "current") = {}
     /\ EventsOf(fired', "current") # {} =>
          /\ current' # current
          /\ Cardinality(EventsOf(fired', "current")) = 1
          /\ \A k \in EventsOf(fired', "current") : fired'[k].item = current']_vars

\* setCurrent has completed for the item that is current and fired no
\* current-changed event.
C7_Witness ==
  /\ last.op = "setCurrent" /\ last.outcome = "ok"
  /\ current # 0 /\ last.item = current
  /\ EventsOf(fired, "current") = {}

C9_LoadCurrentIffMatchedAndValid ==
  [][/\ last'.op = "load" =>
          /\ Cardinality(ItemEvents(fired', last'.item)) = 1
          /\ load'.pc = "refreshing" => load'.item # last'.item
     /\ (LoadFinished /\ quiet) =>
          /\ current' # 0 <=>
               \E k \in 1..Len(load.databases) :
                 /\ Some(load.databases[k].uri) = load.currentDatabaseUri
                 /\ k <= Len(items')
                 /\ objs'[items'[k]].contents # None
          /\ current' # 0 =>
               Some(UriToString(objs'[current'].databaseUri)) = load.currentDatabaseUri]_vars

\* The load has returned in a session without API calls, the persisted
\* current-location names no persisted entry, and there is no current item
\* although an entry was refreshed successfully.
C9_Witness ==
  /\ last.op = "load" /\ load.pc = "done" /\ quiet
  /\ pCurrent # None /\ pCurrent[1] \notin UrisOf(pList)
  /\ current = 0
  /\ \E k \in 1..Len(items) : objs[items[k]].contents # None

\* C10: when the load returns in a session without API calls that follows
\* a settled session, every entry having resolved, the location of the
\* current item is the location of the item that was current when that
\* session ended, and there is none if there was none.
C10_CurrentSurvivesRestart ==
  (/\ prev.settled
   /\ load.pc = "done"
   /\ \A k \in 1..Len(items) : objs[items[k]].contents # None)
  => CurrentLocation = prev.current

\* The dataset directory of a root: the first db-* directory directly under
\* it if there is one, else the first under its working/.
ChosenDataset(lay, root) ==
  IF Len(lay.top) > 0 THEN root \o <<DbNames[1]>>
  ELSE root \o <<"working", DbNames[1]>>
ChosenSchemes(lay) == IF Len(lay.top) > 0 THEN lay.top[1] ELSE lay.working[1]

\* C11: for a root with a db-* directory directly under it or under its
\* working/, the dataset is the first db-* directory of the root if there
\* is one and else the first of working/, however many there are; when that
\* directory holds exactly one scheme file the resolution succeeds with kind
\* Database and that directory as its dataset.
C11_DatasetTopLevelThenWorking ==
  (/\ resolved # None
   /\ probe.uri.scheme = "file"
   /\ probe.lay.exists
   /\ (Len(probe.lay.top) > 0 \/ Len(probe.lay.working) > 0)
   /\ ChosenSchemes(probe.lay) = 1)
  => /\ resolved[1].ok
     /\ resolved[1].value.kind = "Database"
     /\ resolved[1].value.datasetUri =
          UriFile(ChosenDataset(probe.lay, FsPath(probe.uri)))

\* A root with no db-* directory of its own and two under working/, the
\* first of which is the dataset of the resolved record, although the root
\* itself holds scheme files.
C11_Witness ==
  /\ resolved # None /\ resolved[1].ok
  /\ probe.lay.top = <<>> /\ Len(probe.lay.working) = 2
  /\ probe.lay.working[2] # 1
  /\ resolved[1].value.datasetUri = UriFile(<<"a", "working", "db-1">>)

\* C12: every item of the registry that has contents has a scheme location
\* in them, which names a scheme file directly inside the dataset directory
\* of the contents; and the resolver returns a record only when the dataset
\* directory it resolved holds exactly one scheme file, failing with
\* InvalidDatabaseError when it holds none or several.
C12_ContentsHaveOneScheme ==
  /\ \A k \in 1..Len(items) :
       objs[items[k]].contents # None =>
         LET c == objs[items[k]].contents[1]
         IN /\ c.dbSchemeUri # None
            /\ \E n \in 1..Len(SchemeNames) :
                 c.dbSchemeUri[1] = UriFile(FsPath(c.datasetUri) \o <<SchemeNames[n]>>)
            /\ SchemeCount(probe.lay, FsPath(probe.uri), FsPath(c.datasetUri)) = 1
  /\ resolved # None =>
       /\ resolved[1].ok =>
            /\ resolved[1].value.dbSchemeUri # None
            /\ SchemeCount(probe.lay, FsPath(probe.uri),
                           FsPath(resolved[1].value.datasetUri)) = 1
       /\ (/\ probe.uri.scheme = "file" /\ probe.lay.exists
           /\ (Len(probe.lay.top) > 0 \/ Len(probe.lay.working) > 0)
           /\ ChosenSchemes(probe.lay) # 1)
          => /\ ~resolved[1].ok
             /\ resolved[1].error[1].cls = "InvalidDatabaseError"
             /\ resolved[1].error[1].path = ChosenDataset(probe.lay, FsPath(probe.uri))

\* The dataset directory holds two scheme files: the resolver has failed,
\* naming the dataset directory, and the open of the location has thrown
\* and left the registry without an item.
C12_Witness ==
  /\ resolved # None /\ ~resolved[1].ok
  /\ resolved[1].error[1].reason = "multiple dbschemes"
  /\ ChosenSchemes(probe.lay) = 2
  /\ last.op = "open" /\ last.outcome = "throw" /\ items = <<>>

\* The list-changed events (item-changed events that name no item) and the
\* current-changed events among those a step fired.
ListEvents(f) == ItemEvents(f, 0)

\* C13: a listener of a list-changed event fired by add or remove sees a
\* persisted list that is the persisted form of the registry sequence it
\* sees, entry by entry and in order, and the sequence after the change; a
\* listener of a current-changed event sees a persisted current-location
\* that is the location of the current item it sees, absent if there is
\* none, and the current item after the change.
C13_PersistedBeforeNotified ==
  /\ \A k \in ListEvents(fired) :
       /\ fired[k].view.pList = PersistedOf(fired[k].view.objs, fired[k].view.items)
       /\ last.op \in {"open", "remove"} => fired[k].view.items = items
  /\ \A k \in EventsOf(fired, "current") :
       /\ fired[k].view.pCurrent =
            (IF fired[k].view.current = 0 THEN None
             ELSE Some(UriToString(fired[k].view.objs[fired[k].view.current].databaseUri)))
       /\ fired[k].view.current = fired[k].item
       /\ fired[k].view.current = current

\* A step has removed the current one of two items and fired a list-changed
\* event, the list of the remaining item having been persisted.
C13_Witness ==
  /\ last.op = "remove"
  /\ ListEvents(fired) # {}
  /\ Len(items) = 1 /\ Len(pList) = 1
  /\ current = 0 /\ pCurrent # None

\* s with every colon replaced by an underscore.
WithoutColons(s) == [k \in 1..Len(s) |-> IF s[k] = ":" THEN "_" ELSE s[k]]

\* C14: for an item with a source archive and a file path, the relative
\* path resolveSourceFile makes is the input without its leading slashes and
\* with every colon replaced by an underscore: it is the fragment of the
\* result for a zip archive, and follows the path of the archive and one
\* slash for a directory.
C14_SourceFileHasNoColon ==
  (resolved # None /\ sourceArchive(objs[1]) # None /\ probe.file # None) =>
    LET archive == sourceArchive(objs[1])[1]
        expected == WithoutColons(StripLeadingSlashes(probe.file[1]))
    IN /\ ~(Len(expected) > 0 /\ expected[1] = "/")
       /\ \A k \in 1..Len(expected) : expected[k] # ":"
       /\ IF archive.scheme = zipArchiveScheme
            THEN resolved[1].fragment = expected
            ELSE resolved[1].path = PathString(archive.path) \o <<"/">> \o expected

\* C15: when the load fails as a whole on a stored list that is malformed,
\* be it in an entry that follows well-formed ones, the failure is caught
\* and reported and the registry is left empty.
C15_FailedLoadLeavesRegistryEmpty ==
  load.pc = "failed" => items = <<>>

\* Every stored entry but those of the location that hangs has its item in
\* the registry, at its place, refreshed, and current if it has the stored
\* current-location and is valid.
OthersLoaded ==
  \A k \in 1..Len(probe.stored) :
    probe.stored[k].uri # UriToString(probe.uri) =>
      /\ k <= Len(items)
      /\ UriToString(objs[items[k]].databaseUri) = probe.stored[k].uri
      /\ OneOf(objs[items[k]])
      /\ (probe.storedCurrent = Some(probe.stored[k].uri)
            /\ objs[items[k]].contents # None)
         => (current # 0 /\ CurrentLocation = probe.storedCurrent)

\* C18: when the refresh of one stored entry never settles during the load
\* of a well-formed stored list, every other entry, those after it too, is
\* in the end added to the registry and refreshed, and made current if it is
\* the stored current one.
C18_HungRefreshBlocksNoOther ==
  <>((\A k \in 1..Len(probe.stored) : probe.stored[k] # NullEntry) => OthersLoaded)

\* C16: the current item is absent or is an item of the registry sequence,
\* whatever the interleaving of open, remove, setCurrent and the load; here
\* for the load, whose items are in the sequence when it is suspended in
\* their refresh: a step of the load that makes an item current leaves a
\* current item that is in the sequence.
C16_CurrentIsListed ==
  [][(last'.op = "load" /\ current' # current) =>
       \E k \in 1..Len(items') : items'[k] = current']_vars

\* C19: while the load runs in a session without API calls (so that
\* nothing has been removed), the persisted list holds every location it
\* held when the session started.
C19_PersistedListKeepsEntries ==
  (quiet /\ load.pc = "refreshing") => UrisOf(load.databases) \subseteq UrisOf(pList)

\* C20: no two items of the registry sequence have the same location, and
\* no two entries of the persisted list.
C20_OneItemPerLocation ==
  /\ \A j, k \in 1..Len(items) :
       objs[items[j]].databaseUri = objs[items[k]].databaseUri => j = k
  /\ \A j, k \in 1..Len(pList) : pList[j].uri = pList[k].uri => j = k

\* C17: when the last of several overlapping refresh() calls on an item
\* completes, the item is left with exactly what that call settled with
\* (the record and no error, or no contents and the error), whatever the
\* calls completed before it left, and the step fires an item-changed event
\* for the item whose listeners see that pair.
C17_LastRefreshWins ==
  [][(/\ last'.op = "refresh" /\ last'.refreshed # 0
      /\ Len(resolved) >= 1
      /\ calls' = EmptyBag) =>
       LET it == last'.refreshed
           res == resolveDatabaseContents(last'.lay[1], objs[it].databaseUri)
       IN /\ objs'[it].contents = (IF res.ok THEN Some(res.value) ELSE None)
          /\ objs'[it].error = (IF res.ok THEN None ELSE res.error)
          /\ OneOf(objs'[it])
          /\ ItemEvents(fired', it) # {}
          /\ \A k \in ItemEvents(fired', it) :
               fired'[k].view.objs[it] = objs'[it]]_vars

\* Two overlapping refreshes of the item have completed, the first with an
\* error and the last with a record, and the item has the record and no
\* error.
C17_Witness ==
  /\ last.op = "refresh" /\ calls = EmptyBag
  /\ Len(resolved) = 2
  /\ ~resolved[1].ok /\ resolved[2].ok
  /\ objs[1].contents = Some(resolved[2].value) /\ objs[1].error = None

\* C21: every step of a session that changes the current item fires a
\* current-changed event, and the last such event of the step carries the
\* new current item, so that a listener that follows these events has the
\* current item of the registry when the step is over.
C21_CurrentChangeIsNotified ==
  [][(last'.op # "construct" /\ current' # current) =>
       /\ EventsOf(fired', "current") # {}
       /\ \A k \in EventsOf(fired', "current") :
            (\A j \in EventsOf(fired', "current") : j <= k)
              => fired'[k].item = current']_vars

\* C22: belongsToExplorerUri(candidate) is true exactly when the item has a
\* zip source archive, the candidate has the archive scheme and its fragment
\* is the path of that archive; so it is true for the item's own explorer
\* location and false for a candidate that names another archive.
C22_BelongsIffOwnArchive ==
  resolved # None =>
    LET archive == sourceArchive(objs[1])
    IN /\ resolved[1].belongs <=>
            /\ archive # None
            /\ EndsWithZip(FsPath(archive[1]))
            /\ probe.candidate.scheme = zipArchiveScheme
            /\ probe.candidate.fragment = PathString(FsPath(archive[1]))
       /\ Some(probe.candidate) = resolved[1].explorer => resolved[1].belongs

====
